---- MODULE Spec2Model ----
(***************************************************************************)
(* Model of scripts/aggregate_to_sqlite.py: the batch pipeline that reads  *)
(* the *_parsed.json exports of a game and aggregates them into a SQLite   *)
(* store (entity tables, child tables, blueprint-derived weight tables and *)
(* read views).                                                            *)
(*                                                                         *)
(* Strings are sequences of one-character strings, so that split, replace, *)
(* startswith and sorted are computed as Python computes them.  JSON       *)
(* values are records tagged by field j; a mapping's payload is a record   *)
(* whose DOMAIN is the set of keys present.                                *)
(***************************************************************************)
EXTENDS Integers, Sequences, FiniteSets, TLC

VARIABLES
    files,        \* json_files: the sorted list of input documents (main, line 739)
    pc,           \* the statement of main() that runs next
    db,           \* the tables of motortown.db as of the last commit
    views,        \* the views defined in the store
    stats,        \* the counts read back by the summary
    error,        \* the function in which an exception ended the run, "" if none
    strip_arg,    \* argument of a direct call of strip_enum
    strip_res,    \* results of successive applications of strip_enum to it
    runs,         \* how many times main() has been started on the snapshot
    prior,        \* the tables the run before this one left in motortown.db
    path_arg,     \* a stored reference path whose blueprint name is derived directly
    path_res      \* the blueprint name derived from it, <<>> before the derivation

vars == <<files, pc, db, views, stats, error, strip_arg, strip_res,
          runs, prior, path_arg, path_res>>

-----------------------------------------------------------------------------
(* Bounds of the model.                                                    *)

\* Most records (table rows and blueprint exports) in one input snapshot.
MaxRecords == 3
\* Longest string handed to strip_enum or to the blueprint-name derivation directly.
MaxStrLen == 5
\* Most runs of main() in a row on one snapshot.
MaxRuns == 2

-----------------------------------------------------------------------------
(* String literals of the program.                                         *)

S_Sep == <<":", ":">>
S_Slash == <<"/">>
S_ClassSuffix == <<"_", "C">>
S_ParsedMark == <<"_", "p", "a", "r", "s", "e", "d">>
S_ParsedJson == <<"_", "p", "a", "r", "s", "e", "d", ".", "j", "s", "o", "n">>
S_DotJson == <<".", "j", "s", "o", "n">>
S_DataTable == <<"D", "a", "t", "a", "T", "a", "b", "l", "e">>
S_Blueprint == <<"B", "l", "u", "e", "p", "r", "i", "n", "t">>
S_Import == <<"I", "m", "p", "o", "r", "t">>
S_Export == <<"E", "x", "p", "o", "r", "t">>
S_Map == <<"M", "a", "p">>
S_Unknown == <<"U", "n", "k", "n", "o", "w", "n">>
S_Vehicles == <<"V", "e", "h", "i", "c", "l", "e", "s">>
S_Cargos == <<"C", "a", "r", "g", "o", "s">>
S_CargoBed == <<"C", "a", "r", "g", "o", "B", "e", "d">>
S_CargoBedAttachments ==
    <<"C", "a", "r", "g", "o", "B", "e", "d", "A", "t", "t", "a", "c", "h", "m", "e", "n", "t", "s">>
S_GameVersion == <<"0", ".", "7", ".", "1", "7">>

part_files ==
    << <<"V", "e", "h", "i", "c", "l", "e", "P", "a", "r", "t", "s">>,
       <<"V", "e", "h", "i", "c", "l", "e", "P", "a", "r", "t", "s", "0">>,
       <<"E", "n", "g", "i", "n", "e", "s">>,
       <<"T", "r", "a", "n", "s", "m", "i", "s", "s", "i", "o", "n", "s">>,
       <<"W", "h", "e", "e", "l", "s">>,
       <<"S", "u", "s", "p", "e", "n", "s", "i", "o", "n", "s">>,
       <<"B", "r", "a", "k", "e", "P", "a", "d", "s">>,
       <<"B", "r", "a", "k", "e", "P", "o", "w", "e", "r">>,
       <<"B", "r", "a", "k", "e", "B", "a", "l", "a", "n", "c", "e">>,
       <<"F", "i", "n", "a", "l", "D", "r", "i", "v", "e", "R", "a", "t", "i", "o">>,
       <<"L", "S", "D">>,
       <<"A", "e", "r", "o", "P", "a", "r", "t", "s">>,
       <<"C", "a", "r", "g", "o", "B", "e", "d">>,
       <<"H", "e", "a", "d", "l", "i", "g", "h", "t", "s">>,
       <<"U", "t", "i", "l", "i", "t", "y", "P", "a", "r", "t", "s">> >>

-----------------------------------------------------------------------------
(* Python's str methods on character sequences.                            *)

\* s.startswith(p)
StartsWith(s, p) == Len(p) <= Len(s) /\ SubSeq(s, 1, Len(p)) = p

\* s.endswith(p)
EndsWith(s, p) == Len(p) <= Len(s) /\ SubSeq(s, Len(s) - Len(p) + 1, Len(s)) = p

\* s.find(p), 1-based; 0 when p does not occur
Find(s, p) ==
    LET hits == {i \in 1..(Len(s) - Len(p) + 1) : SubSeq(s, i, i + Len(p) - 1) = p}
    IN IF hits = {} THEN 0 ELSE CHOOSE i \in hits : \A k \in hits : i <= k

\* p in s
Contains(s, p) == Find(s, p) # 0

\* s.split(p)[-1]: split cuts at the occurrences found scanning left to right,
\* each search resuming after the previous match.
RECURSIVE SplitLast(_, _)
SplitLast(s, p) ==
    LET i == Find(s, p)
    IN IF i = 0 THEN s ELSE SplitLast(SubSeq(s, i + Len(p), Len(s)), p)

\* s.split(p, 1)[-1]: only the first occurrence cuts
SplitLastOnce(s, p) ==
    LET i == Find(s, p)
    IN IF i = 0 THEN s ELSE SubSeq(s, i + Len(p), Len(s))

\* s.replace(p, "")
RECURSIVE Remove(_, _)
Remove(s, p) ==
    LET i == Find(s, p)
    IN IF i = 0 THEN s
       ELSE SubSeq(s, 1, i - 1) \o Remove(SubSeq(s, i + Len(p), Len(s)), p)

\* Code points order the characters that occur in file names.
AsciiOrder ==
    <<".", "/", "0", "1", "2", "3", "4", "5", "6", "7", "8", "9", ":",
      "A", "B", "C", "D", "E", "F", "G", "H", "I", "J", "K", "L", "M",
      "N", "O", "P", "Q", "R", "S", "T", "U", "V", "W", "X", "Y", "Z", "_",
      "a", "b", "c", "d", "e", "f", "g", "h", "i", "j", "k", "l", "m",
      "n", "o", "p", "q", "r", "s", "t", "u", "v", "w", "x", "y", "z">>

Ord(c) == CHOOSE i \in 1..Len(AsciiOrder) : AsciiOrder[i] = c

\* a < b for strings
RECURSIVE StrLess(_, _)
StrLess(a, b) ==
    IF b = <<>> THEN FALSE
    ELSE IF a = <<>> THEN TRUE
    ELSE IF Head(a) = Head(b) THEN StrLess(Tail(a), Tail(b))
    ELSE Ord(Head(a)) < Ord(Head(b))

-----------------------------------------------------------------------------
(* JSON values.                                                            *)

JNull == [j |-> "null"]
JStr(s) == [j |-> "str", s |-> s]
JNum(n) == [j |-> "num", n |-> n]
JBool(b) == [j |-> "bool", b |-> b]
JList(items) == [j |-> "list", items |-> items]
JDict(d) == [j |-> "dict", d |-> d]
EmptyDict == JDict(<<>>)

\* The outcome of an expression that raises.
Raised == [j |-> "raise"]

\* d.get(k, default) on the payload of a mapping
Get(d, k, default) == IF k \in DOMAIN d THEN d[k] ELSE default

\* bool(v)
Truthy(v) ==
    CASE v.j = "null" -> FALSE
      [] v.j = "str" -> v.s # <<>>
      [] v.j = "num" -> v.n # 0
      [] v.j = "bool" -> v.b
      [] v.j = "list" -> v.items # <<>>
      [] v.j = "dict" -> DOMAIN v.d # {}
      [] OTHER -> FALSE

\* Values sqlite3 binds as a statement parameter; any other type raises.
Bindable(v) == v.j \in {"null", "str", "num", "bool"}

\* strip_enum with split("::", 1): only the first prefix is cut
strip_enum_first_only(value) ==
    IF value.j = "str"
    THEN IF Contains(value.s, S_Sep) THEN JStr(SplitLastOnce(value.s, S_Sep)) ELSE value
    ELSE Raised

\* strip_enum.  Called with a value that is not a string, `"::" in value` raises
\* for None and numbers; for a list or a mapping it is a membership test, and
\* only a hit goes on to the failing value.split.
strip_enum(value) ==
    IF value.j = "str"
    THEN IF Contains(value.s, S_Sep) THEN JStr(SplitLast(value.s, S_Sep)) ELSE value
    ELSE IF value.j = "list"
    THEN IF \E i \in 1..Len(value.items) : value.items[i] = JStr(S_Sep) THEN Raised ELSE value
    ELSE IF value.j = "dict"
    THEN IF "::" \in DOMAIN value.d THEN Raised ELSE value
    ELSE Raised

\* get_object_path
get_object_path(obj) ==
    IF obj.j = "dict" /\ Get(obj.d, "Type", JNull) \in {JStr(S_Import), JStr(S_Export)}
    THEN LET p == Get(obj.d, "Path", JNull)
         IN IF Truthy(p) THEN p ELSE Get(obj.d, "ObjectName", JNull)
    ELSE JNull

-----------------------------------------------------------------------------
(* The store.  A table is the sequence of its rows in rowid order.  Of the *)
(* columns that are filled by a bare row.get(...), one per entity table is *)
(* kept (cost, mass_kg, is_deprecated); the others behave alike.           *)

EmptyDb ==
    [ schema_version |-> <<>>,
      vehicles |-> <<>>, vehicle_parts |-> <<>>,
      vehicle_default_parts |-> <<>>, vehicle_tags |-> <<>>,
      cargos |-> <<>>, cargo_space_types |-> <<>>,
      cargo_weights |-> <<>>, cargo_weight_components |-> <<>>,
      part_compatible_types |-> <<>>, cargo_bed_specs |-> <<>>,
      vehicle_weights |-> <<>> ]

\* The outcome of a run of statements: the tables, or an exception.
Ok(d) == [raised |-> FALSE, db |-> d]
Fail == [raised |-> TRUE, db |-> EmptyDb]

\* INSERT INTO without OR REPLACE on a table that had no PRIMARY KEY
InsertKeepingOld(table, key, row) == Append(table, row)

\* INSERT OR REPLACE INTO a table whose PRIMARY KEY is the column `key`
InsertOrReplace(table, key, row) ==
    Append(SelectSeq(table, LAMBDA r : r[key] # row[key]), row)

\* INSERT INTO a child table (AUTOINCREMENT id: the position in the sequence)
Insert(table, row) == Append(table, row)

AllBindable(params) == \A i \in 1..Len(params) : Bindable(params[i])

\* create_schema: CREATE TABLE IF NOT EXISTS ..., and the version marker
create_schema(d) ==
    [d EXCEPT !.schema_version =
        InsertOrReplace(@, "version", [version |-> 3, game_version |-> S_GameVersion])]

-----------------------------------------------------------------------------
(* process_vehicles                                                        *)

\* lines 258-265: the rows of vehicle_tags of one record
RECURSIVE TagRows(_, _, _)
TagRows(acc, vehicle_id, tag_list) ==
    IF acc.raised \/ tag_list = <<>> THEN acc
    ELSE IF ~Bindable(Head(tag_list)) THEN Fail
    ELSE TagRows(Ok([acc.db EXCEPT !.vehicle_tags =
                        Insert(@, [vehicle_id |-> vehicle_id, tag |-> Head(tag_list)])]),
                 vehicle_id, Tail(tag_list))

VehicleTags(acc, vehicle_id, row) ==
    LET tags == Get(row, "GameplayTags", EmptyDict)
    IN IF acc.raised \/ tags.j # "dict" THEN acc
       ELSE LET tag_list == Get(tags.d, "GameplayTags", JList(<<>>))
            IN IF tag_list.j # "list" THEN Fail
               ELSE TagRows(acc, vehicle_id, tag_list.items)

\* lines 267-277: the rows of vehicle_default_parts of one record
RECURSIVE PartEntries(_, _, _)
PartEntries(acc, vehicle_id, entries) ==
    IF acc.raised \/ entries = <<>> THEN acc
    ELSE LET entry == Head(entries)
         IN IF entry.j # "dict" THEN Fail
            ELSE LET slot == strip_enum(Get(entry.d, "Key", JStr(<<>>)))
                     part_id == Get(entry.d, "Value", JNull)
                 IN IF slot = Raised THEN Fail
                    ELSE IF ~(Truthy(slot) /\ Truthy(part_id))
                    THEN PartEntries(acc, vehicle_id, Tail(entries))
                    ELSE IF ~AllBindable(<<slot, part_id>>) THEN Fail
                    ELSE PartEntries(
                            Ok([acc.db EXCEPT !.vehicle_default_parts =
                                  Insert(@, [vehicle_id |-> vehicle_id, slot |-> slot,
                                             part_id |-> part_id])]),
                            vehicle_id, Tail(entries))

VehicleDefaultParts(acc, vehicle_id, row) ==
    LET parts == Get(row, "Parts", EmptyDict)
    IN IF acc.raised \/ parts.j # "dict" \/ Get(parts.d, "_Type", JNull) # JStr(S_Map)
       THEN acc
       ELSE LET entries == Get(parts.d, "Entries", JList(<<>>))
            IN IF entries.j # "list" THEN Fail
               ELSE PartEntries(acc, vehicle_id, entries.items)

\* lines 233-256: the parameters of the INSERT into vehicles
VehiclePrimary(row, fname) ==
    [id |-> row.RowName,
     vehicle_type |-> strip_enum(Get(row, "VehicleType", JStr(<<>>))),
     blueprint_path |-> get_object_path(Get(row, "VehicleClass", JNull)),
     cost |-> Get(row, "Cost", JNull),
     source_file |-> JStr(fname)]

\* lines 229-277: one row of a vehicles file
VehicleRow(acc, row, fname) ==
    IF acc.raised THEN acc
    ELSE IF "RowName" \notin DOMAIN row THEN Fail
    ELSE LET vehicle_id == row.RowName
             primary == VehiclePrimary(row, fname)
         IN IF primary.vehicle_type = Raised
               \/ ~AllBindable(<<primary.id, primary.vehicle_type, primary.blueprint_path,
                                 primary.cost, primary.source_file>>)
            THEN Fail
            ELSE LET d1 == [acc.db EXCEPT !.vehicles = InsertOrReplace(@, "id", primary)]
                 IN VehicleDefaultParts(VehicleTags(Ok(d1), vehicle_id, row), vehicle_id, row)

RECURSIVE VehicleRows(_, _, _)
VehicleRows(acc, rows, fname) ==
    IF acc.raised \/ rows = <<>> THEN acc
    ELSE VehicleRows(VehicleRow(acc, Head(rows), fname), Tail(rows), fname)

\* lines 218-277: the loop over json_files
RECURSIVE process_vehicles(_, _)
process_vehicles(acc, json_files) ==
    IF acc.raised \/ json_files = <<>> THEN acc
    ELSE LET json_file == Head(json_files)
         IN IF ~StartsWith(json_file.name, S_Vehicles) \/ json_file.Type # S_DataTable
            THEN process_vehicles(acc, Tail(json_files))
            ELSE process_vehicles(VehicleRows(acc, json_file.Rows, json_file.name),
                                  Tail(json_files))

-----------------------------------------------------------------------------
(* process_vehicle_parts                                                   *)

\* lines 324-330
RECURSIVE CompatibleTypes(_, _, _)
CompatibleTypes(acc, part_id, vehicle_types) ==
    IF acc.raised \/ vehicle_types = <<>> THEN acc
    ELSE LET vtype == strip_enum(Head(vehicle_types))
         IN IF vtype = Raised \/ ~Bindable(vtype) THEN Fail
            ELSE CompatibleTypes(
                    Ok([acc.db EXCEPT !.part_compatible_types =
                          Insert(@, [part_id |-> part_id, vehicle_type |-> vtype])]),
                    part_id, Tail(vehicle_types))

\* lines 307-322: the parameters of the INSERT into vehicle_parts
PartPrimary(row, fname) ==
    [id |-> row.RowName,
     part_type |-> strip_enum(Get(row, "PartType", JStr(<<>>))),
     mass_kg |-> Get(row, "MassKg", JNull),
     source_file |-> JStr(fname)]

\* lines 303-330: one row of a parts file
PartRow(acc, row, fname) ==
    IF acc.raised THEN acc
    ELSE IF "RowName" \notin DOMAIN row THEN Fail
    ELSE LET part_id == row.RowName
             primary == PartPrimary(row, fname)
             vehicle_types == Get(row, "VehicleTypes", JList(<<>>))
         IN IF primary.part_type = Raised
               \/ ~AllBindable(<<primary.id, primary.part_type, primary.mass_kg>>)
            THEN Fail
            ELSE LET d1 == [acc.db EXCEPT !.vehicle_parts = InsertOrReplace(@, "id", primary)]
                 IN IF vehicle_types.j # "list" THEN Fail
                    ELSE CompatibleTypes(Ok(d1), part_id, vehicle_types.items)

RECURSIVE PartRows(_, _, _)
PartRows(acc, rows, fname) ==
    IF acc.raised \/ rows = <<>> THEN acc
    ELSE PartRows(PartRow(acc, Head(rows), fname), Tail(rows), fname)

\* lines 292-330
RECURSIVE process_vehicle_parts(_, _)
process_vehicle_parts(acc, json_files) ==
    IF acc.raised \/ json_files = <<>> THEN acc
    ELSE LET json_file == Head(json_files)
         IN IF ~(\E i \in 1..Len(part_files) : StartsWith(json_file.name, part_files[i]))
               \/ json_file.Type # S_DataTable
            THEN process_vehicle_parts(acc, Tail(json_files))
            ELSE process_vehicle_parts(PartRows(acc, json_file.Rows, json_file.name),
                                       Tail(json_files))

-----------------------------------------------------------------------------
(* process_cargos                                                          *)

\* lines 354-361: weight_min and weight_max, or Raised
WeightRange(row) ==
    LET weight_range == Get(row, "WeightRange", EmptyDict)
    IN IF weight_range.j = "dict"
       THEN LET weight_data == Get(weight_range.d, "WeightRange", EmptyDict)
            IN IF weight_data.j # "dict" THEN Raised
               ELSE [j |-> "range", min |-> Get(weight_data.d, "X", JNum(0)),
                     max |-> Get(weight_data.d, "Y", JNum(0))]
       ELSE [j |-> "range", min |-> JNum(0), max |-> JNum(0)]

\* lines 398-404
RECURSIVE SpaceTypes(_, _, _)
SpaceTypes(acc, cargo_id, space_types) ==
    IF acc.raised \/ space_types = <<>> THEN acc
    ELSE LET space_type == strip_enum(Head(space_types))
         IN IF space_type = Raised \/ ~Bindable(space_type) THEN Fail
            ELSE SpaceTypes(
                    Ok([acc.db EXCEPT !.cargo_space_types =
                          Insert(@, [cargo_id |-> cargo_id, space_type |-> space_type])]),
                    cargo_id, Tail(space_types))

\* lines 364-396: the parameters of the INSERT into cargos, given the weights
CargoPrimary(row, fname, weights) ==
    [id |-> row.RowName,
     cargo_type |-> strip_enum(Get(row, "CargoType", JStr(<<>>))),
     weight_min |-> weights.min, weight_max |-> weights.max,
     actor_class_path |-> get_object_path(Get(row, "ActorClass", JNull)),
     is_deprecated |-> Get(row, "bDepcreated", JNull),
     source_file |-> JStr(fname)]

\* lines 351-404: one row of a cargos file
CargoRow(acc, row, fname) ==
    IF acc.raised THEN acc
    ELSE IF "RowName" \notin DOMAIN row THEN Fail
    ELSE LET cargo_id == row.RowName
             weights == WeightRange(row)
             space_types == Get(row, "CargoSpaceTypes", JList(<<>>))
         IN IF weights = Raised THEN Fail
            ELSE LET primary == CargoPrimary(row, fname, weights)
                 IN
            IF primary.cargo_type = Raised THEN Fail
            ELSE IF ~AllBindable(<<primary.id, primary.cargo_type, primary.weight_min,
                                   primary.weight_max, primary.actor_class_path,
                                   primary.is_deprecated>>)
            THEN Fail
            ELSE LET d1 == [acc.db EXCEPT !.cargos = InsertOrReplace(@, "id", primary)]
                 IN IF space_types.j # "list" THEN Fail
                    ELSE SpaceTypes(Ok(d1), cargo_id, space_types.items)

RECURSIVE CargoRows(_, _, _)
CargoRows(acc, rows, fname) ==
    IF acc.raised \/ rows = <<>> THEN acc
    ELSE CargoRows(CargoRow(acc, Head(rows), fname), Tail(rows), fname)

\* lines 340-404
RECURSIVE process_cargos(_, _)
process_cargos(acc, json_files) ==
    IF acc.raised \/ json_files = <<>> THEN acc
    ELSE LET json_file == Head(json_files)
         IN IF ~StartsWith(json_file.name, S_Cargos) \/ json_file.Type # S_DataTable
            THEN process_cargos(acc, Tail(json_files))
            ELSE process_cargos(CargoRows(acc, json_file.Rows, json_file.name),
                                Tail(json_files))

-----------------------------------------------------------------------------
(* Blueprint documents: process_cargo_weights and process_vehicle_weights  *)

\* Path(json_file).stem of a name that ends in ".json"
Stem(name) == IF EndsWith(name, S_DotJson) THEN SubSeq(name, 1, Len(name) - Len(S_DotJson)) ELSE name

\* lines 449-450 and 593-594: the key of a blueprint file
FileBlueprintName(name) == Remove(Stem(name), S_ParsedMark)

\* lines 420-426 and 563-570: the key of a stored reference path; JNull when
\* the entity gets no key; Raised when the stored value has no split.
PathBlueprintName(path) ==
    IF ~Truthy(path) THEN JNull
    ELSE IF path.j # "str" THEN Raised
    ELSE IF ~Contains(path.s, S_Slash) THEN JNull
    ELSE JStr(Remove(SplitLast(path.s, S_Slash), S_ClassSuffix))

\* the lookup matching every blueprint name that ends with an entity's key
RECURSIVE MatchingIdsBySuffix(_, _, _)
MatchingIdsBySuffix(table, pathcol, blueprint_name) ==
    IF table = <<>> THEN <<>>
    ELSE LET rest == MatchingIdsBySuffix(Tail(table), pathcol, blueprint_name)
             key == PathBlueprintName(Head(table)[pathcol])
         IN IF key.j = "str" /\ EndsWith(blueprint_name, key.s)
            THEN <<Head(table).id>> \o rest
            ELSE rest

\* lines 418-435 and 561-579: the ids indexed under a blueprint name, in the
\* order the rows are read
RECURSIVE MatchingIds(_, _, _)
MatchingIds(table, pathcol, blueprint_name) ==
    IF table = <<>> THEN <<>>
    ELSE LET rest == MatchingIds(Tail(table), pathcol, blueprint_name)
         IN IF PathBlueprintName(Head(table)[pathcol]) = JStr(blueprint_name)
            THEN <<Head(table).id>> \o rest
            ELSE rest

IndexRaises(table, pathcol) ==
    \E i \in 1..Len(table) : PathBlueprintName(table[i][pathcol]) = Raised

\* lines 465-471 and 607-613: the mass an export contributes; JNull when it
\* contributes none, Raised when the export cannot be read.
MassOverride(export) ==
    IF export.j # "dict" THEN Raised
    ELSE LET props == Get(export.d, "Properties", EmptyDict)
         IN IF props.j # "dict" THEN Raised
            ELSE LET body_instance == Get(props.d, "BodyInstance", JNull)
                 IN IF body_instance.j # "dict" THEN JNull
                    ELSE LET mass == Get(body_instance.d, "MassInKgOverride", JNull)
                         IN IF ~Truthy(mass) THEN JNull
                            ELSE IF mass.j = "num" THEN (IF mass.n > 0 THEN mass ELSE JNull)
                            ELSE IF mass.j = "bool" THEN JNum(1)
                            ELSE Raised

\* lines 460-473: components, the list of (export_name, mass); or Raised
RECURSIVE Components(_)
Components(exports) ==
    IF exports = <<>> THEN JList(<<>>)
    ELSE LET m == MassOverride(Head(exports))
             rest == Components(Tail(exports))
         IN IF m = Raised \/ rest = Raised THEN Raised
            ELSE IF m = JNull THEN rest
            ELSE JList(<< <<Get(Head(exports).d, "ExportName", JStr(S_Unknown)), m.n>> >>
                       \o rest.items)

RECURSIVE TotalMass(_)
TotalMass(components) ==
    IF components = <<>> THEN 0 ELSE Head(components)[2] + TotalMass(Tail(components))

\* lines 476-480 and 617-621
FirstExportName(exports) ==
    IF exports = <<>> THEN JNull ELSE Get(exports[1].d, "ExportName", JNull)

\* lines 488-493
RECURSIVE InsertComponents(_, _, _)
InsertComponents(acc, cargo_id, components) ==
    IF acc.raised \/ components = <<>> THEN acc
    ELSE IF ~Bindable(Head(components)[1]) THEN Fail
    ELSE InsertComponents(
            Ok([acc.db EXCEPT !.cargo_weight_components =
                  Insert(@, [cargo_id |-> cargo_id, component_name |-> Head(components)[1],
                             mass_kg |-> JNum(Head(components)[2])])]),
            cargo_id, Tail(components))

\* the fan-out stopping after matching_cargos[0]
InsertCargoWeightsFirstOnly(acc, matching_cargos, total_mass, blueprint_path, components) ==
    IF acc.raised \/ matching_cargos = <<>> THEN acc
    ELSE IF ~Bindable(blueprint_path) THEN Fail
    ELSE LET cargo_id == Head(matching_cargos)
             d1 == [acc.db EXCEPT !.cargo_weights =
                      InsertOrReplace(@, "cargo_id",
                          [cargo_id |-> cargo_id, total_weight_kg |-> JNum(total_mass),
                           blueprint_path |-> blueprint_path])]
         IN InsertComponents(Ok(d1), cargo_id, components)

\* lines 483-493
RECURSIVE InsertCargoWeights(_, _, _, _, _)
InsertCargoWeights(acc, matching_cargos, total_mass, blueprint_path, components) ==
    IF acc.raised \/ matching_cargos = <<>> THEN acc
    ELSE IF ~Bindable(blueprint_path) THEN Fail
    ELSE LET cargo_id == Head(matching_cargos)
             d1 == [acc.db EXCEPT !.cargo_weights =
                      InsertOrReplace(@, "cargo_id",
                          [cargo_id |-> cargo_id, total_weight_kg |-> JNum(total_mass),
                           blueprint_path |-> blueprint_path])]
         IN InsertCargoWeights(InsertComponents(Ok(d1), cargo_id, components),
                               Tail(matching_cargos), total_mass, blueprint_path, components)

\* the loop over json_files without the test total_mass > 0
RECURSIVE CargoWeightFilesUnguarded(_, _, _)
CargoWeightFilesUnguarded(acc, index, json_files) ==
    IF acc.raised \/ json_files = <<>> THEN acc
    ELSE LET json_file == Head(json_files)
             matching_cargos == MatchingIds(index, "actor_class_path",
                                            FileBlueprintName(json_file.name))
             components == Components(json_file.Exports)
         IN IF ~EndsWith(json_file.name, S_ParsedJson)
               \/ json_file.Type # S_Blueprint
               \/ matching_cargos = <<>>
            THEN CargoWeightFilesUnguarded(acc, index, Tail(json_files))
            ELSE IF components = Raised THEN Fail
            ELSE CargoWeightFilesUnguarded(
                    InsertCargoWeights(acc, matching_cargos, TotalMass(components.items),
                                       FirstExportName(json_file.Exports), components.items),
                    index, Tail(json_files))

\* lines 438-493: the loop over json_files; index is the cargos table read in
\* lines 418-435, before the loop
RECURSIVE CargoWeightFiles(_, _, _)
CargoWeightFiles(acc, index, json_files) ==
    IF acc.raised \/ json_files = <<>> THEN acc
    ELSE LET json_file == Head(json_files)
             matching_cargos == MatchingIds(index, "actor_class_path",
                                            FileBlueprintName(json_file.name))
             components == Components(json_file.Exports)
         IN IF ~EndsWith(json_file.name, S_ParsedJson)
               \/ json_file.Type # S_Blueprint
               \/ matching_cargos = <<>>
            THEN CargoWeightFiles(acc, index, Tail(json_files))
            ELSE IF components = Raised THEN Fail
            ELSE IF TotalMass(components.items) > 0
            THEN CargoWeightFiles(
                    InsertCargoWeights(acc, matching_cargos, TotalMass(components.items),
                                       FirstExportName(json_file.Exports), components.items),
                    index, Tail(json_files))
            ELSE CargoWeightFiles(acc, index, Tail(json_files))

process_cargo_weights(acc, json_files) ==
    IF acc.raised \/ IndexRaises(acc.db.cargos, "actor_class_path") THEN Fail
    ELSE CargoWeightFiles(acc, acc.db.cargos, json_files)

\* lines 604-614: chassis_mass, or Raised
RECURSIVE ChassisMass(_)
ChassisMass(exports) ==
    IF exports = <<>> THEN JNum(0)
    ELSE LET m == MassOverride(Head(exports))
             rest == ChassisMass(Tail(exports))
         IN IF m = Raised \/ rest = Raised THEN Raised
            ELSE IF m = JNull THEN rest
            ELSE JNum(m.n + rest.n)

\* lines 623-627
RECURSIVE InsertVehicleWeights(_, _, _, _)
InsertVehicleWeights(acc, matching_vehicles, chassis_mass, blueprint_path) ==
    IF acc.raised \/ matching_vehicles = <<>> THEN acc
    ELSE IF ~Bindable(blueprint_path) THEN Fail
    ELSE InsertVehicleWeights(
            Ok([acc.db EXCEPT !.vehicle_weights =
                  InsertOrReplace(@, "vehicle_id",
                      [vehicle_id |-> Head(matching_vehicles),
                       chassis_mass_kg |-> JNum(chassis_mass),
                       blueprint_path |-> blueprint_path])]),
            Tail(matching_vehicles), chassis_mass, blueprint_path)

\* lines 582-627
RECURSIVE VehicleWeightFiles(_, _, _)
VehicleWeightFiles(acc, index, json_files) ==
    IF acc.raised \/ json_files = <<>> THEN acc
    ELSE LET json_file == Head(json_files)
             matching_vehicles == MatchingIds(index, "blueprint_path",
                                              FileBlueprintName(json_file.name))
             chassis_mass == ChassisMass(json_file.Exports)
         IN IF ~EndsWith(json_file.name, S_ParsedJson)
               \/ json_file.Type # S_Blueprint
               \/ matching_vehicles = <<>>
            THEN VehicleWeightFiles(acc, index, Tail(json_files))
            ELSE IF chassis_mass = Raised THEN Fail
            ELSE IF chassis_mass.n > 0
            THEN VehicleWeightFiles(
                    InsertVehicleWeights(acc, matching_vehicles, chassis_mass.n,
                                         FirstExportName(json_file.Exports)),
                    index, Tail(json_files))
            ELSE VehicleWeightFiles(acc, index, Tail(json_files))

process_vehicle_weights(acc, json_files) ==
    IF acc.raised \/ IndexRaises(acc.db.vehicles, "blueprint_path") THEN Fail
    ELSE VehicleWeightFiles(acc, acc.db.vehicles, json_files)

-----------------------------------------------------------------------------
(* process_cargo_bed_specs                                                 *)

\* one row of a cargo bed file without the skip of empty bed data
BedSpecRowNoSkip(acc, row) ==
    IF acc.raised THEN acc
    ELSE IF "RowName" \notin DOMAIN row THEN Fail
    ELSE LET cargo_bed == Get(row, "CargoBed", EmptyDict)
         IN IF cargo_bed.j # "dict" THEN Fail
            ELSE Ok([acc.db EXCEPT !.cargo_bed_specs =
                       InsertOrReplace(@, "part_id",
                           [part_id |-> row.RowName,
                            cargo_space_type |->
                                strip_enum(Get(cargo_bed.d, "CargoSpaceType", JStr(<<>>))),
                            length_cm |-> JNum(0), width_cm |-> JNum(0), height_cm |-> JNum(0),
                            dump_volume_kl |-> Get(cargo_bed.d, "DumpVolume", JNum(0)),
                            fix_cargo |-> Get(cargo_bed.d, "bFixCargo", JBool(FALSE)),
                            unlimited_height |->
                                Get(cargo_bed.d, "bUnlimitedHeight", JBool(FALSE))])])

\* lines 514-547: one row of a cargo bed file
BedSpecRow(acc, row) ==
    IF acc.raised THEN acc
    ELSE IF "RowName" \notin DOMAIN row THEN Fail
    ELSE LET part_id == row.RowName
             cargo_bed == Get(row, "CargoBed", EmptyDict)
         IN IF ~Truthy(cargo_bed) THEN acc
            ELSE IF cargo_bed.j # "dict" THEN Fail
            ELSE LET space_type == strip_enum(Get(cargo_bed.d, "CargoSpaceType", JStr(<<>>)))
                     cargo_size == Get(cargo_bed.d, "CargoSpaceSize", EmptyDict)
                 IN IF space_type = Raised \/ cargo_size.j # "dict" THEN Fail
                    ELSE LET size_data == Get(cargo_size.d, "CargoSpaceSize", EmptyDict)
                         IN IF size_data.j # "dict" THEN Fail
                            ELSE LET spec ==
                                       [part_id |-> part_id, cargo_space_type |-> space_type,
                                        length_cm |-> Get(size_data.d, "X", JNum(0)),
                                        width_cm |-> Get(size_data.d, "Y", JNum(0)),
                                        height_cm |-> Get(size_data.d, "Z", JNum(0)),
                                        dump_volume_kl |-> Get(cargo_bed.d, "DumpVolume", JNum(0)),
                                        fix_cargo |-> Get(cargo_bed.d, "bFixCargo", JBool(FALSE)),
                                        unlimited_height |->
                                            Get(cargo_bed.d, "bUnlimitedHeight", JBool(FALSE))]
                                 IN IF ~AllBindable(<<spec.part_id, spec.cargo_space_type,
                                                      spec.length_cm, spec.width_cm,
                                                      spec.height_cm, spec.dump_volume_kl,
                                                      spec.fix_cargo, spec.unlimited_height>>)
                                    THEN Fail
                                    ELSE Ok([acc.db EXCEPT !.cargo_bed_specs =
                                               InsertOrReplace(@, "part_id", spec)])

RECURSIVE BedSpecRows(_, _)
BedSpecRows(acc, rows) ==
    IF acc.raised \/ rows = <<>> THEN acc
    ELSE BedSpecRows(BedSpecRow(acc, Head(rows)), Tail(rows))

\* the loop over json_files without the exclusion of CargoBedAttachments
RECURSIVE process_cargo_bed_specs_any_bed(_, _)
process_cargo_bed_specs_any_bed(acc, json_files) ==
    IF acc.raised \/ json_files = <<>> THEN acc
    ELSE LET json_file == Head(json_files)
         IN IF ~StartsWith(json_file.name, S_CargoBed) \/ json_file.Type # S_DataTable
            THEN process_cargo_bed_specs_any_bed(acc, Tail(json_files))
            ELSE process_cargo_bed_specs_any_bed(BedSpecRows(acc, json_file.Rows),
                                                 Tail(json_files))

\* lines 503-547
RECURSIVE process_cargo_bed_specs(_, _)
process_cargo_bed_specs(acc, json_files) ==
    IF acc.raised \/ json_files = <<>> THEN acc
    ELSE LET json_file == Head(json_files)
         IN IF ~StartsWith(json_file.name, S_CargoBed)
               \/ StartsWith(json_file.name, S_CargoBedAttachments)
               \/ json_file.Type # S_DataTable
            THEN process_cargo_bed_specs(acc, Tail(json_files))
            ELSE process_cargo_bed_specs(BedSpecRows(acc, json_file.Rows), Tail(json_files))

-----------------------------------------------------------------------------
(* create_views: the views are queries, evaluated when they are read.      *)

ViewNames ==
    {"cargos_with_weights", "active_cargos", "vehicles_with_engines",
     "vehicles_with_cargo_space", "vehicles_with_weight"}

\* the rows of `table` whose column col equals val (an ON col = val)
Matching(table, col, val) == SelectSeq(table, LAMBDA r : r[col] = val)

\* LEFT JOIN: the matching rows, or one all-NULL row
LeftJoin(table, col, val, nullrow) ==
    IF Matching(table, col, val) = <<>> THEN <<nullrow>> ELSE Matching(table, col, val)

\* COALESCE
RECURSIVE Coalesce(_)
Coalesce(vals) ==
    IF vals = <<>> THEN JNull
    ELSE IF Head(vals) # JNull THEN Head(vals)
    ELSE Coalesce(Tail(vals))

\* the number SQLite holds for a stored value (booleans are stored 0/1)
SqlNum(v) == IF v.j = "num" THEN v.n ELSE IF v.j = "bool" /\ v.b THEN 1 ELSE 0

NullCargoWeight == [cargo_id |-> JNull, total_weight_kg |-> JNull, blueprint_path |-> JNull]
NullVehicleWeight == [vehicle_id |-> JNull, chassis_mass_kg |-> JNull, blueprint_path |-> JNull]

\* the WHERE clause without the test of the reference path
ActiveWhereDeprecatedOnly(c) ==
    c.is_deprecated = JNull \/ (c.is_deprecated.j \in {"num", "bool"} /\ SqlNum(c.is_deprecated) = 0)

\* lines 657-659: the WHERE clause of active_cargos
ActiveWhere(c) ==
    /\ c.is_deprecated = JNull \/ (c.is_deprecated.j \in {"num", "bool"} /\ SqlNum(c.is_deprecated) = 0)
    /\ c.actor_class_path # JNull
    /\ c.actor_class_path # JStr(<<>>)

\* lines 649-660: SELECT ... FROM cargos c LEFT JOIN cargo_weights cw ... WHERE ...
RECURSIVE ActiveCargoRows(_, _)
ActiveCargoRows(cargos, d) ==
    IF cargos = <<>> THEN <<>>
    ELSE LET c == Head(cargos)
             cws == LeftJoin(d.cargo_weights, "cargo_id", c.id, NullCargoWeight)
             out == [i \in 1..Len(cws) |->
                       [id |-> c.id,
                        actual_weight_kg |->
                            Coalesce(<<cws[i].total_weight_kg, c.weight_max, JNum(0)>>),
                        blueprint_path |-> cws[i].blueprint_path]]
         IN (IF ActiveWhere(c) THEN out ELSE <<>>) \o ActiveCargoRows(Tail(cargos), d)

active_cargos(d) == ActiveCargoRows(d.cargos, d)

\* lines 715-722: the rows of vdp JOIN vp of one vehicle that pass the WHERE,
\* as the list of their vp.mass_kg
RECURSIVE PartMasses(_, _, _)
PartMasses(vdps, vehicle_id, d) ==
    IF vdps = <<>> THEN <<>>
    ELSE LET vdp == Head(vdps)
             vps == SelectSeq(Matching(d.vehicle_parts, "id", vdp.part_id),
                              LAMBDA vp : vp.mass_kg # JNull /\ SqlNum(vp.mass_kg) > 0)
             here == IF vdp.vehicle_id = vehicle_id
                     THEN [i \in 1..Len(vps) |-> SqlNum(vps[i].mass_kg)]
                     ELSE <<>>
         IN here \o PartMasses(Tail(vdps), vehicle_id, d)

RECURSIVE SumSeq(_)
SumSeq(ns) == IF ns = <<>> THEN 0 ELSE Head(ns) + SumSeq(Tail(ns))

\* lines 700-724
RECURSIVE VehicleWeightRows(_, _)
VehicleWeightRows(vehicles, d) ==
    IF vehicles = <<>> THEN <<>>
    ELSE LET v == Head(vehicles)
             vws == LeftJoin(d.vehicle_weights, "vehicle_id", v.id, NullVehicleWeight)
             masses == PartMasses(d.vehicle_default_parts, v.id, d)
             out == [i \in 1..Len(vws) |->
                       [id |-> v.id,
                        chassis_mass_kg |-> SqlNum(vws[i].chassis_mass_kg),
                        parts_weight_kg |-> SumSeq(masses),
                        total_weight_kg |-> SqlNum(vws[i].chassis_mass_kg) + SumSeq(masses),
                        part_count |-> Len(masses)]]
         IN out \o VehicleWeightRows(Tail(vehicles), d)

vehicles_with_weight(d) == VehicleWeightRows(d.vehicles, d)

-----------------------------------------------------------------------------
(* main                                                                    *)

TypeOK ==
    /\ pc \in {"create_schema", "process_vehicles", "process_vehicle_parts",
               "process_cargos", "process_cargo_weights", "process_cargo_bed_specs",
               "process_vehicle_weights", "create_views", "summary", "done", "failed",
               "strip_enum", "blueprint_name"}
    /\ views \subseteq ViewNames
    /\ runs \in 0..MaxRuns

\* connecting to the store of the run before, without removing it
NewStoreKeepingOld(old) == old

\* lines 742-749: motortown.db is removed if it exists, and a new store opened
NewStore(old) == EmptyDb

\* lines 742-750: the old store is removed, a new one is opened, create_schema
CreateSchema ==
    /\ pc = "create_schema"
    /\ db' = create_schema(NewStore(db))
    /\ views' = {}
    /\ pc' = "process_vehicles"
    /\ UNCHANGED <<files, stats, error, strip_arg, strip_res, runs, prior,
                 path_arg, path_res>>

\* the whole run as one transaction: an exception rolls the store back to empty
RunSingleTransaction(result, next) ==
    /\ IF result.raised
       THEN pc' = "failed" /\ error' = pc /\ db' = EmptyDb
       ELSE pc' = next /\ db' = result.db /\ UNCHANGED error
    /\ UNCHANGED <<files, views, stats, strip_arg, strip_res, runs, prior,
                   path_arg, path_res>>

\* A processor runs to its commit, or raises: the exception ends the run and
\* the store keeps what was last committed.
Run(result, next) ==
    /\ IF result.raised
       THEN pc' = "failed" /\ error' = pc /\ UNCHANGED db
       ELSE pc' = next /\ db' = result.db /\ UNCHANGED error
    /\ UNCHANGED <<files, views, stats, strip_arg, strip_res, runs, prior,
                 path_arg, path_res>>

ProcessVehicles ==
    pc = "process_vehicles" /\ Run(process_vehicles(Ok(db), files), "process_vehicle_parts")

ProcessVehicleParts ==
    pc = "process_vehicle_parts" /\ Run(process_vehicle_parts(Ok(db), files), "process_cargos")

ProcessCargos ==
    pc = "process_cargos" /\ Run(process_cargos(Ok(db), files), "process_cargo_weights")

ProcessCargoWeights ==
    /\ pc = "process_cargo_weights"
    /\ Run(process_cargo_weights(Ok(db), files), "process_cargo_bed_specs")

ProcessCargoBedSpecs ==
    /\ pc = "process_cargo_bed_specs"
    /\ Run(process_cargo_bed_specs(Ok(db), files), "process_vehicle_weights")

ProcessVehicleWeights ==
    /\ pc = "process_vehicle_weights"
    /\ Run(process_vehicle_weights(Ok(db), files), "create_views")

\* line 766
CreateViews ==
    /\ pc = "create_views"
    /\ views' = ViewNames
    /\ pc' = "summary"
    /\ UNCHANGED <<files, db, stats, error, strip_arg, strip_res, runs, prior,
                 path_arg, path_res>>

\* lines 770-803: the counts printed after the store is reopened
Summary ==
    /\ pc = "summary"
    /\ stats' = [vehicles |-> Len(db.vehicles), vehicle_parts |-> Len(db.vehicle_parts),
                 cargos |-> Len(db.cargos), cargo_weights |-> Len(db.cargo_weights),
                 default_parts |-> Len(db.vehicle_default_parts),
                 vehicle_tags |-> Len(db.vehicle_tags),
                 active_cargos |-> Len(active_cargos(db))]
    /\ pc' = "done"
    /\ UNCHANGED <<files, db, views, error, strip_arg, strip_res, runs, prior,
                 path_arg, path_res>>

\* lines 729-740: main() is started again on the same input directory, after
\* the run before has ended (normally or by an exception); the store that
\* run left is still on disk.
RunAgain ==
    /\ pc \in {"done", "failed"}
    /\ runs < MaxRuns
    /\ runs' = runs + 1
    /\ prior' = db
    /\ pc' = "create_schema"
    /\ error' = ""
    /\ stats' = <<>>
    /\ UNCHANGED <<files, db, views, strip_arg, strip_res, path_arg, path_res>>

Next ==
    \/ RunAgain
    \/ CreateSchema
    \/ ProcessVehicles
    \/ ProcessVehicleParts
    \/ ProcessCargos
    \/ ProcessCargoWeights
    \/ ProcessCargoBedSpecs
    \/ ProcessVehicleWeights
    \/ CreateViews
    \/ Summary

-----------------------------------------------------------------------------
(* Input snapshots.  A snapshot is drawn as a list of at most MaxRecords   *)
(* (file name, record) pairs: the files are the names that occur, sorted   *)
(* as main sorts them, each holding its records in the order drawn.        *)

RECURSIVE SortNames(_)
SortNames(names) ==
    IF names = {} THEN <<>>
    ELSE LET first == CHOOSE n \in names : \A m \in names \ {n} : StrLess(n, m)
         IN <<first>> \o SortNames(names \ {first})

RecordsOf(draw, name) ==
    LET own == SelectSeq(draw, LAMBDA x : x.name = name)
    IN [i \in 1..Len(own) |-> own[i].rec]

FileOf(draw, name) ==
    LET type == (CHOOSE x \in {draw[i] : i \in 1..Len(draw)} : x.name = name).type
    IN [name |-> name, Type |-> type,
        Rows |-> IF type = S_DataTable THEN RecordsOf(draw, name) ELSE <<>>,
        Exports |-> IF type = S_Blueprint THEN RecordsOf(draw, name) ELSE <<>>]

Snapshot(draw) ==
    LET names == SortNames({draw[i].name : i \in 1..Len(draw)})
    IN [i \in 1..Len(names) |-> FileOf(draw, names[i])]

Draws(slots) == UNION {[1..n -> slots] : n \in 0..MaxRecords}

Slots(name, type, recs) == {[name |-> name, type |-> type, rec |-> r] : r \in recs}

\* glob("*_parsed.json")
Parsed(base) == base \o S_ParsedJson

InitMain(slots) ==
    /\ files \in {Snapshot(draw) : draw \in Draws(slots)}
    /\ pc = "create_schema"
    /\ db = EmptyDb
    /\ views = {}
    /\ stats = <<>>
    /\ error = ""
    /\ strip_arg = <<>>
    /\ strip_res = <<>>
    /\ runs = 1
    /\ prior = EmptyDb
    /\ path_arg = <<>>
    /\ path_res = <<>>

-----------------------------------------------------------------------------
(* The values the input records are drawn from.                            *)

V1 == JStr(<<"V", "1">>)
V2 == JStr(<<"V", "2">>)
P1 == JStr(<<"P", "1">>)
P2 == JStr(<<"P", "2">>)
C1 == JStr(<<"C", "1">>)
C2 == JStr(<<"C", "2">>)

EnumTruck == JStr(<<"E", ":", ":", "T">>)
EnumSlot == JStr(<<"S", ":", ":", "E">>)
EnumSpace == JStr(<<"K", ":", ":", "B">>)
Tag1 == JStr(<<"t">>)

Ref(path) == JDict([Type |-> JStr(S_Import), Path |-> JStr(path)])
RefEmpty == JDict([Type |-> JStr(S_Export), ObjectName |-> JStr(<<>>)])
PathBox == <<"/", "G", "/", "B", "o", "x", "_", "C">>
PathV1 == <<"/", "G", "/", "V", "1", "_", "C">>

\* a field that is absent, or present with one of vals
Optional(key, vals) == {<<>>} \cup {key :> v : v \in vals}

TagsOf(tags) == JDict([GameplayTags |-> JList(tags)])
PartsMap(entries) == JDict([_Type |-> JStr(S_Map), Entries |-> JList(entries)])
Entry(slot, part) == JDict([Key |-> slot, Value |-> part])
Range(x, y) == JDict([WeightRange |-> JDict([X |-> JNum(x), Y |-> JNum(y)])])
BodyMass(m) == JDict([BodyInstance |-> JDict([MassInKgOverride |-> m])])
ExportOf(name, m) == JDict([ExportName |-> JStr(name), Properties |-> BodyMass(m)])
Size(x, y, z) == JDict([CargoSpaceSize |-> JDict([X |-> JNum(x), Y |-> JNum(y), Z |-> JNum(z)])])

\* Vehicles files: an id defined again with other tags and default parts, and
\* a record whose VehicleType is null
VehicleRecords ==
    {[RowName |-> V1, VehicleType |-> EnumTruck] @@ t @@ p :
        t \in Optional("GameplayTags", {TagsOf(<<Tag1>>)}),
        p \in Optional("Parts", {PartsMap(<<Entry(EnumSlot, P1)>>)})}
    \cup {[RowName |-> V2, VehicleType |-> EnumTruck],
          [RowName |-> V1, VehicleType |-> JNull]}

\* Parts files
PartRecords ==
    {[RowName |-> P1, PartType |-> EnumTruck] @@ m @@ t :
        m \in Optional("MassKg", {JNum(150)}),
        t \in Optional("VehicleTypes", {JList(<<EnumTruck>>)})}
    \cup {[RowName |-> P2, PartType |-> EnumTruck],
          [RowName |-> P1, PartType |-> JNull]}

\* Cargos files: every shape of WeightRange the extractor distinguishes
CargoRecords ==
    {[RowName |-> C1, CargoType |-> EnumSpace, WeightRange |-> Range(1, 2)] @@ t :
        t \in Optional("CargoSpaceTypes", {JList(<<EnumSpace>>)})}
    \cup {[RowName |-> C2, CargoType |-> EnumSpace],
          [RowName |-> C1, CargoType |-> JNull, WeightRange |-> Range(1, 2)],
          [RowName |-> C1, CargoType |-> EnumSpace, WeightRange |-> JNull],
          [RowName |-> C1, CargoType |-> EnumSpace,
           WeightRange |-> JDict([WeightRange |-> JNull])]}

\* Cargos with and without a usable actor path, deprecated or not
ActorCargoRecords ==
    {[RowName |-> C1] @@ a @@ dep :
        a \in Optional("ActorClass", {Ref(PathBox), RefEmpty}),
        dep \in Optional("bDepcreated", {JBool(TRUE), JBool(FALSE)})}
    \cup {[RowName |-> C2, ActorClass |-> Ref(PathBox)]}

\* Exports of a blueprint: a positive, a zero and a negative mass, no name
BoxExports ==
    {ExportOf(<<"b">>, JNum(200)), ExportOf(<<"c">>, JNum(0)), ExportOf(<<"d">>, JNum(-5)),
     JDict([Properties |-> BodyMass(JNum(100))])}

\* an export whose Properties are null: props.get raises
UnreadableExport == JDict([ExportName |-> JStr(<<"x">>), Properties |-> JNull])

\* Exports of a second blueprint document whose name gives the same key
SecondBoxExports == {ExportOf(<<"e">>, JNum(300)), UnreadableExport}

\* Exports of a blueprint document that no cargo refers to
OtherBoxExports == {ExportOf(<<"b">>, JNum(200)), UnreadableExport}

\* Vehicles that share a blueprint, with and without a default part
WeighedVehicleRecords ==
    {[RowName |-> V1, VehicleType |-> EnumTruck, VehicleClass |-> Ref(PathV1)] @@ p :
        p \in Optional("Parts", {PartsMap(<<Entry(EnumSlot, P1)>>)})}
    \cup {[RowName |-> V2, VehicleClass |-> Ref(PathV1)],
          [RowName |-> V1]}

MassPartRecords ==
    {[RowName |-> P1] @@ m : m \in Optional("MassKg", {JNum(150), JNum(0)})}

ChassisExports == {ExportOf(<<"b">>, JNum(200)), ExportOf(<<"c">>, JNum(0))}

\* Cargo bed rows: no bed data, empty bed data, no size, zero size, a size
BedRecords ==
    {[RowName |-> P1] @@ b :
        b \in Optional("CargoBed",
                 {EmptyDict,
                  JDict([CargoSpaceType |-> EnumSpace]),
                  JDict([CargoSpaceType |-> EnumSpace] @@ Size(0, 0, 0).d),
                  JDict([CargoSpaceType |-> EnumSpace] @@ Size(100, 50, 20).d)})}
    \cup {[RowName |-> P2, CargoBed |-> JDict(Size(100, 50, 20).d)]}

VehicleSlots ==
    Slots(Parsed(S_Vehicles), S_DataTable, VehicleRecords)
    \cup Slots(Parsed(S_Vehicles \o <<"2">>), S_DataTable, VehicleRecords)

PartSlots ==
    Slots(Parsed(part_files[1]), S_DataTable, PartRecords)
    \cup Slots(Parsed(part_files[3]), S_DataTable, PartRecords)

CargoSlots ==
    Slots(Parsed(S_Cargos), S_DataTable, CargoRecords)
    \cup Slots(Parsed(S_Cargos \o <<"2">>), S_DataTable, CargoRecords)

CargoWeightSlots ==
    Slots(Parsed(S_Cargos), S_DataTable, ActorCargoRecords)
    \cup Slots(Parsed(<<"B", "o", "x">>), S_Blueprint, BoxExports)
    \cup Slots(Parsed(<<"B", "o", "x">> \o S_ParsedMark), S_Blueprint, SecondBoxExports)
    \cup Slots(Parsed(<<"O", "t", "h", "e", "r", "B", "o", "x">>), S_Blueprint,
               OtherBoxExports)

VehicleWeightSlots ==
    Slots(Parsed(S_Vehicles), S_DataTable, WeighedVehicleRecords)
    \cup Slots(Parsed(part_files[1]), S_DataTable, MassPartRecords)
    \cup Slots(Parsed(<<"V", "1">>), S_Blueprint, ChassisExports)

\* rows of tabular files that are not cargo bed files
OtherBedRecords ==
    {[RowName |-> P1, CargoBed |-> JDict([CargoSpaceType |-> EnumSpace] @@ Size(100, 50, 20).d)],
     [RowName |-> P2]}

\* a cargo bed file, a file of cargo bed attachments, a file no function reads
BedSlots ==
    Slots(Parsed(S_CargoBed), S_DataTable, BedRecords)
    \cup Slots(Parsed(S_CargoBedAttachments), S_DataTable, OtherBedRecords)
    \cup Slots(Parsed(<<"M", "i", "s", "c">>), S_DataTable, OtherBedRecords)

\* A snapshot holds files of one family.
Families ==
    {VehicleSlots, PartSlots, CargoSlots, CargoWeightSlots, VehicleWeightSlots, BedSlots}

Init == \E slots \in Families : InitMain(slots)

Spec == Init /\ [][Next]_vars

-----------------------------------------------------------------------------
(* strip_enum called directly, twice in a row, on every short string.      *)

StripAlphabet == {"A", "B", ":"}

StripStrings == UNION {[1..n -> StripAlphabet] : n \in 0..MaxStrLen}

InitStrip ==
    /\ strip_arg \in StripStrings
    /\ strip_res = <<>>
    /\ files = <<>>
    /\ pc = "strip_enum"
    /\ db = EmptyDb
    /\ views = {}
    /\ stats = <<>>
    /\ error = ""
    /\ runs = 0
    /\ prior = EmptyDb
    /\ path_arg = <<>>
    /\ path_res = <<>>

ApplyStripEnum ==
    /\ pc = "strip_enum"
    /\ Len(strip_res) < 2
    /\ strip_res' = Append(strip_res,
                           strip_enum(IF strip_res = <<>> THEN JStr(strip_arg)
                                      ELSE strip_res[Len(strip_res)]))
    /\ UNCHANGED <<files, pc, db, views, stats, error, strip_arg, runs, prior,
                 path_arg, path_res>>

NextStrip == ApplyStripEnum

SpecStrip == InitStrip /\ [][NextStrip]_vars

-----------------------------------------------------------------------------
(* The blueprint name of a stored reference path, derived directly for     *)
(* every short path.                                                       *)

PathAlphabet == {"/", "B", "_", "C"}

PathStrings == UNION {[1..n -> PathAlphabet] : n \in 0..MaxStrLen}

InitPath ==
    /\ path_arg \in PathStrings
    /\ path_res = <<>>
    /\ strip_arg = <<>>
    /\ strip_res = <<>>
    /\ files = <<>>
    /\ pc = "blueprint_name"
    /\ db = EmptyDb
    /\ views = {}
    /\ stats = <<>>
    /\ error = ""
    /\ runs = 0
    /\ prior = EmptyDb

\* lines 419-426: the statements run for one row (cargo_id, actor_path)
ApplyBlueprintName ==
    /\ pc = "blueprint_name"
    /\ path_res = <<>>
    /\ path_res' = <<PathBlueprintName(JStr(path_arg))>>
    /\ UNCHANGED <<files, pc, db, views, stats, error, strip_arg, strip_res, runs, prior,
                   path_arg>>

NextPath == ApplyBlueprintName

SpecPath == InitPath /\ [][NextPath]_vars

-----------------------------------------------------------------------------
(* What the properties below speak about.                                  *)

StepOrder ==
    <<"create_schema", "process_vehicles", "process_vehicle_parts", "process_cargos",
      "process_cargo_weights", "process_cargo_bed_specs", "process_vehicle_weights",
      "create_views", "summary", "done">>

Pos(step) == CHOOSE i \in 1..Len(StepOrder) : StepOrder[i] = step

\* the function `step` has run to its commit
Committed(step) ==
    /\ pc \notin {"strip_enum", "blueprint_name"}
    /\ Pos(IF pc = "failed" THEN error ELSE pc) > Pos(step)

\* the records of the tabular files whose name starts with one of `prefixes`
\* (and with none of `excluded`), in the order they are processed
RECURSIVE Occurrences(_, _, _)
Occurrences(json_files, prefixes, excluded) ==
    IF json_files = <<>> THEN <<>>
    ELSE LET f == Head(json_files)
             here == IF /\ f.Type = S_DataTable
                        /\ \E p \in prefixes : StartsWith(f.name, p)
                        /\ ~\E p \in excluded : StartsWith(f.name, p)
                     THEN [i \in 1..Len(f.Rows) |-> [row |-> f.Rows[i], fname |-> f.name]]
                     ELSE <<>>
         IN here \o Occurrences(Tail(json_files), prefixes, excluded)

VehicleOccurrences == Occurrences(files, {S_Vehicles}, {})
PartOccurrences == Occurrences(files, {part_files[i] : i \in 1..Len(part_files)}, {})
CargoOccurrences == Occurrences(files, {S_Cargos}, {})
BedOccurrences == Occurrences(files, {S_CargoBed}, {S_CargoBedAttachments})

IdsOf(occ) == {occ[i].row.RowName : i \in 1..Len(occ)}

\* the last record processed for id
LastOccurrence(occ, id) ==
    occ[CHOOSE i \in 1..Len(occ) :
            /\ occ[i].row.RowName = id
            /\ \A k \in (i + 1)..Len(occ) : occ[k].row.RowName # id]

RowsWith(table, col, val) == {k \in 1..Len(table) : table[k][col] = val}

\* exactly one row per id that occurs, equal to Primary of its last occurrence,
\* and no row for an id that does not occur
OnePrimaryRowPerId(table, occ, Primary(_, _)) ==
    /\ \A id \in IdsOf(occ) :
          /\ Cardinality(RowsWith(table, "id", id)) = 1
          /\ \A k \in RowsWith(table, "id", id) :
                table[k] = Primary(LastOccurrence(occ, id).row, LastOccurrence(occ, id).fname)
    /\ \A k \in 1..Len(table) : table[k].id \in IdsOf(occ)

CargoPrimaryOf(row, fname) == CargoPrimary(row, fname, WeightRange(row))

\* an id occurs in two files with different field values
RedefinedInLaterFile(occ, Primary(_, _)) ==
    \E i, k \in 1..Len(occ) :
        /\ i < k
        /\ occ[i].row.RowName = occ[k].row.RowName
        /\ occ[i].fname # occ[k].fname
        /\ Primary(occ[i].row, occ[i].fname) # Primary(occ[k].row, occ[k].fname)

\* C1: each entity table holds exactly one primary row per row identifier of
\* its tabular files, and that row carries the field values of the last
\* occurrence of the identifier in processing order.
C1_OnePrimaryRowPerId ==
    /\ Committed("process_vehicles")
          => OnePrimaryRowPerId(db.vehicles, VehicleOccurrences, VehiclePrimary)
    /\ Committed("process_vehicle_parts")
          => OnePrimaryRowPerId(db.vehicle_parts, PartOccurrences, PartPrimary)
    /\ Committed("process_cargos")
          => OnePrimaryRowPerId(db.cargos, CargoOccurrences, CargoPrimaryOf)

C1_Witness ==
    /\ pc = "done"
    /\ \/ RedefinedInLaterFile(VehicleOccurrences, VehiclePrimary) /\ Len(db.vehicles) = 1
       \/ RedefinedInLaterFile(PartOccurrences, PartPrimary) /\ Len(db.vehicle_parts) = 1
       \/ RedefinedInLaterFile(CargoOccurrences, CargoPrimaryOf) /\ Len(db.cargos) = 1

\* the child rows one record gives, each extracted into an empty store
TagsOfRecord(id, row) == VehicleTags(Ok(EmptyDb), id, row).db.vehicle_tags
DefaultPartsOfRecord(id, row) ==
    VehicleDefaultParts(Ok(EmptyDb), id, row).db.vehicle_default_parts
CompatibleTypesOfRecord(id, row) ==
    CompatibleTypes(Ok(EmptyDb), id, Get(row, "VehicleTypes", JList(<<>>)).items)
        .db.part_compatible_types
SpaceTypesOfRecord(id, row) ==
    SpaceTypes(Ok(EmptyDb), id, Get(row, "CargoSpaceTypes", JList(<<>>)).items)
        .db.cargo_space_types

\* C2: after the run the child rows of an entity are exactly one row per
\* element of the multi-valued fields of the last record processed for its
\* id; no child row of an earlier record with the same id remains.
C2_ChildRowsOfLastRecord ==
    /\ Committed("process_vehicles") =>
          \A id \in IdsOf(VehicleOccurrences) :
              /\ Matching(db.vehicle_tags, "vehicle_id", id)
                    = TagsOfRecord(id, LastOccurrence(VehicleOccurrences, id).row)
              /\ Matching(db.vehicle_default_parts, "vehicle_id", id)
                    = DefaultPartsOfRecord(id, LastOccurrence(VehicleOccurrences, id).row)
    /\ Committed("process_vehicle_parts") =>
          \A id \in IdsOf(PartOccurrences) :
              Matching(db.part_compatible_types, "part_id", id)
                 = CompatibleTypesOfRecord(id, LastOccurrence(PartOccurrences, id).row)
    /\ Committed("process_cargos") =>
          \A id \in IdsOf(CargoOccurrences) :
              Matching(db.cargo_space_types, "cargo_id", id)
                 = SpaceTypesOfRecord(id, LastOccurrence(CargoOccurrences, id).row)

\* the multiset of the elements of a sequence
BagOf(seq) ==
    [x \in {seq[i] : i \in 1..Len(seq)} |-> Cardinality({i \in 1..Len(seq) : seq[i] = x})]

\* the positive mass override of an export, 0 if it has none
PositiveMassOf(export) ==
    LET props == Get(export.d, "Properties", EmptyDict)
        body == IF props.j = "dict" THEN Get(props.d, "BodyInstance", JNull) ELSE JNull
        mass == IF body.j = "dict" THEN Get(body.d, "MassInKgOverride", JNull) ELSE JNull
    IN IF mass.j = "num" /\ mass.n > 0 THEN mass.n ELSE 0

RECURSIVE PositiveTotal(_)
PositiveTotal(exports) ==
    IF exports = <<>> THEN 0 ELSE PositiveMassOf(Head(exports)) + PositiveTotal(Tail(exports))

BlueprintsKeyed(key) ==
    {i \in 1..Len(files) : files[i].Type = S_Blueprint /\ FileBlueprintName(files[i].name) = key}

\* the derived attributes of an entity: (mass, blueprint path) of each row
DerivedOf(table, idcol, masscol, id) ==
    LET own == Matching(table, idcol, id)
    IN [i \in 1..Len(own) |-> <<own[i][masscol], own[i].blueprint_path>>]

ComponentsOf(id) ==
    LET own == Matching(db.cargo_weight_components, "cargo_id", id)
    IN [i \in 1..Len(own) |-> <<own[i].component_name, own[i].mass_kg>>]

\* entities a and b share a blueprint key
ShareKey(a, b, pathcol) ==
    /\ PathBlueprintName(a[pathcol]).j = "str"
    /\ PathBlueprintName(a[pathcol]) = PathBlueprintName(b[pathcol])

\* C3: after phase 2 the entities that share a blueprint key have the same
\* derived-weight row (total mass and blueprint path; all of them have one
\* when a blueprint of that key has positive mass), and cargos that share a
\* key have the same multiset of (component name, mass) rows.
C3_UniformFanOut ==
    /\ Committed("process_cargo_weights") =>
          \A i, k \in 1..Len(db.cargos) :
              ShareKey(db.cargos[i], db.cargos[k], "actor_class_path") =>
                  /\ DerivedOf(db.cargo_weights, "cargo_id", "total_weight_kg", db.cargos[i].id)
                        = DerivedOf(db.cargo_weights, "cargo_id", "total_weight_kg",
                                    db.cargos[k].id)
                  /\ BagOf(ComponentsOf(db.cargos[i].id)) = BagOf(ComponentsOf(db.cargos[k].id))
                  /\ (\E f \in BlueprintsKeyed(PathBlueprintName(db.cargos[i].actor_class_path).s) :
                         PositiveTotal(files[f].Exports) > 0)
                        => Len(Matching(db.cargo_weights, "cargo_id", db.cargos[i].id)) = 1
    /\ Committed("process_vehicle_weights") =>
          \A i, k \in 1..Len(db.vehicles) :
              ShareKey(db.vehicles[i], db.vehicles[k], "blueprint_path") =>
                  /\ DerivedOf(db.vehicle_weights, "vehicle_id", "chassis_mass_kg",
                               db.vehicles[i].id)
                        = DerivedOf(db.vehicle_weights, "vehicle_id", "chassis_mass_kg",
                                    db.vehicles[k].id)
                  /\ (\E f \in BlueprintsKeyed(PathBlueprintName(db.vehicles[i].blueprint_path).s) :
                         PositiveTotal(files[f].Exports) > 0)
                        => Len(Matching(db.vehicle_weights, "vehicle_id", db.vehicles[i].id)) = 1

C3_Witness ==
    /\ pc = "done"
    /\ \E i, k \in 1..Len(db.cargos) :
          /\ i # k
          /\ ShareKey(db.cargos[i], db.cargos[k], "actor_class_path")
          /\ Len(Matching(db.cargo_weights, "cargo_id", db.cargos[i].id)) = 1
          /\ Len(Matching(db.cargo_weights, "cargo_id", db.cargos[k].id)) = 1
          /\ ComponentsOf(db.cargos[k].id) # <<>>

\* C4: every stored total mass and chassis mass is strictly positive, and an
\* entity whose blueprint key is matched only by documents of total positive
\* mass 0 has no derived-weight row and no component row.
C4_NoRowWithoutPositiveMass ==
    /\ \A i \in 1..Len(db.cargo_weights) : db.cargo_weights[i].total_weight_kg.n > 0
    /\ \A i \in 1..Len(db.vehicle_weights) : db.vehicle_weights[i].chassis_mass_kg.n > 0
    /\ Committed("process_cargo_weights") =>
          \A i \in 1..Len(db.cargos) :
              LET key == PathBlueprintName(db.cargos[i].actor_class_path)
              IN (key.j = "str" /\ \A f \in BlueprintsKeyed(key.s) :
                                        PositiveTotal(files[f].Exports) = 0)
                     => /\ Matching(db.cargo_weights, "cargo_id", db.cargos[i].id) = <<>>
                        /\ ComponentsOf(db.cargos[i].id) = <<>>
    /\ Committed("process_vehicle_weights") =>
          \A i \in 1..Len(db.vehicles) :
              LET key == PathBlueprintName(db.vehicles[i].blueprint_path)
              IN (key.j = "str" /\ \A f \in BlueprintsKeyed(key.s) :
                                        PositiveTotal(files[f].Exports) = 0)
                     => Matching(db.vehicle_weights, "vehicle_id", db.vehicles[i].id) = <<>>

C4_Witness ==
    /\ pc = "done"
    /\ \E i \in 1..Len(db.cargos) :
          LET key == PathBlueprintName(db.cargos[i].actor_class_path)
          IN /\ key.j = "str"
             /\ \E f \in BlueprintsKeyed(key.s) :
                   files[f].Exports # <<>> /\ PositiveTotal(files[f].Exports) = 0
             /\ Matching(db.cargo_weights, "cargo_id", db.cargos[i].id) = <<>>

HasBedData(row) == Truthy(Get(row, "CargoBed", EmptyDict))

\* the dimensions a record's bed data carries, 0 where it carries none
DimensionOf(row, axis) ==
    LET size == Get(row.CargoBed.d, "CargoSpaceSize", EmptyDict)
    IN Get(Get(size.d, "CargoSpaceSize", EmptyDict).d, axis, JNum(0))

BedOccurrencesWithData ==
    SelectSeq(BedOccurrences, LAMBDA o : HasBedData(o.row))

\* C5 as stated: a cargo_bed_specs row exists only if a positive size value
\* was found: no row has length, width and height all zero.
C5_BedSpecHasPositiveSize ==
    \A i \in 1..Len(db.cargo_bed_specs) :
        \/ SqlNum(db.cargo_bed_specs[i].length_cm) > 0
        \/ SqlNum(db.cargo_bed_specs[i].width_cm) > 0
        \/ SqlNum(db.cargo_bed_specs[i].height_cm) > 0

\* C5 amended: a cargo_bed_specs row exists for a part only if a record of a
\* cargo bed file carries non-empty cargo-bed data for it (a record whose bed
\* data is absent or empty gives no row); the row of such a part holds the
\* dimensions of its last record with bed data, 0 for each one that is missing.
C5_BedSpecOnlyFromBedData ==
    /\ \A i \in 1..Len(db.cargo_bed_specs) :
          db.cargo_bed_specs[i].part_id \in IdsOf(BedOccurrencesWithData)
    /\ Committed("process_cargo_bed_specs") =>
          \A id \in IdsOf(BedOccurrencesWithData) :
              LET last == LastOccurrence(BedOccurrencesWithData, id).row
                  own == Matching(db.cargo_bed_specs, "part_id", id)
              IN /\ Len(own) = 1
                 /\ own[1].length_cm = DimensionOf(last, "X")
                 /\ own[1].width_cm = DimensionOf(last, "Y")
                 /\ own[1].height_cm = DimensionOf(last, "Z")

C5_Witness ==
    /\ pc = "done"
    /\ \E i \in 1..Len(db.cargo_bed_specs) :
          /\ db.cargo_bed_specs[i].length_cm = JNum(0)
          /\ db.cargo_bed_specs[i].width_cm = JNum(0)
          /\ db.cargo_bed_specs[i].height_cm = JNum(0)
    /\ \E i \in 1..Len(BedOccurrences) :
          /\ ~HasBedData(BedOccurrences[i].row)
          /\ Matching(db.cargo_bed_specs, "part_id", BedOccurrences[i].row.RowName) = <<>>

\* the masses of the parts that the last record of a vehicle assigns, counting
\* only parts with a known positive mass
RECURSIVE AssignedMasses(_)
AssignedMasses(assignments) ==
    IF assignments = <<>> THEN <<>>
    ELSE LET known == SelectSeq(Matching(db.vehicle_parts, "id", Head(assignments).part_id),
                                LAMBDA vp : vp.mass_kg.j = "num" /\ vp.mass_kg.n > 0)
         IN [i \in 1..Len(known) |-> known[i].mass_kg.n] \o AssignedMasses(Tail(assignments))

CurrentPartMasses(id) ==
    AssignedMasses(DefaultPartsOfRecord(id, LastOccurrence(VehicleOccurrences, id).row))

DerivedChassisMass(id) ==
    LET own == Matching(db.vehicle_weights, "vehicle_id", id)
    IN IF own = <<>> THEN 0 ELSE own[1].chassis_mass_kg.n

\* C6: for every vehicle, vehicles_with_weight yields exactly one row, whose
\* chassis_mass_kg is the derived chassis mass (0 if none), parts_weight_kg
\* the sum of the known positive masses of the currently assigned default
\* parts, part_count their number, and total_weight_kg the sum of the two.
C6_VehicleWeightView ==
    "vehicles_with_weight" \in views =>
        \A k \in 1..Len(db.vehicles) :
            LET id == db.vehicles[k].id
                own == Matching(vehicles_with_weight(db), "id", id)
            IN /\ Len(own) = 1
               /\ own[1].chassis_mass_kg = DerivedChassisMass(id)
               /\ own[1].parts_weight_kg = SumSeq(CurrentPartMasses(id))
               /\ own[1].part_count = Len(CurrentPartMasses(id))
               /\ own[1].total_weight_kg = DerivedChassisMass(id) + SumSeq(CurrentPartMasses(id))

\* a cargo that is not flagged deprecated and has a non-empty actor path
NotDeprecated(c) == ~Truthy(c.is_deprecated)
HasActorPath(c) == c.actor_class_path # JNull /\ c.actor_class_path # JStr(<<>>)

\* C7: active_cargos holds a cargo, exactly once, if and only if the cargo is
\* not flagged deprecated and its actor path is neither absent nor empty,
\* whether or not it has a cargo_weights row.
C7_ActiveCargosMembership ==
    "active_cargos" \in views =>
        /\ \A k \in 1..Len(db.cargos) :
              Len(Matching(active_cargos(db), "id", db.cargos[k].id))
                 = IF NotDeprecated(db.cargos[k]) /\ HasActorPath(db.cargos[k]) THEN 1 ELSE 0
        /\ \A i \in 1..Len(active_cargos(db)) :
              \E k \in 1..Len(db.cargos) : db.cargos[k].id = active_cargos(db)[i].id

C7_Witness ==
    /\ pc = "done"
    /\ \E k \in 1..Len(db.cargos) :
          /\ Matching(db.cargo_weights, "cargo_id", db.cargos[k].id) # <<>>
          /\ Len(Matching(active_cargos(db), "id", db.cargos[k].id)) = 1
    /\ \E k \in 1..Len(db.cargos) :
          /\ Matching(db.cargo_weights, "cargo_id", db.cargos[k].id) # <<>>
          /\ Matching(active_cargos(db), "id", db.cargos[k].id) = <<>>

\* C8: strip_enum is total and idempotent on strings, and returns a string
\* that does not contain "::" unchanged.
C8_StripEnumIdempotent ==
    /\ \A i \in 1..Len(strip_res) : strip_res[i].j = "str"
    /\ Len(strip_res) = 2 => strip_res[2] = strip_res[1]
    /\ (Len(strip_res) >= 1 /\ ~Contains(strip_arg, S_Sep)) => strip_res[1] = JStr(strip_arg)

C8_Witness ==
    /\ Len(strip_res) = 2
    /\ Contains(strip_arg, S_Sep)
    /\ strip_res[1] # JStr(strip_arg)
    /\ strip_res[1].s # <<>>

\* the substring of s after the last position at which p occurs
AfterLastOccurrence(s, p) ==
    LET at == {i \in 1..(Len(s) - Len(p) + 1) : SubSeq(s, i, i + Len(p) - 1) = p}
        last == CHOOSE i \in at : \A k \in at : k <= i
    IN SubSeq(s, last + Len(p), Len(s))

\* C9: for a string that contains "::", strip_enum returns the substring that
\* follows the last occurrence of "::".
C9_StripEnumAfterLastSeparator ==
    (Len(strip_res) >= 1 /\ Contains(strip_arg, S_Sep))
        => strip_res[1] = JStr(AfterLastOccurrence(strip_arg, S_Sep))

Extractors ==
    {"process_vehicles", "process_vehicle_parts", "process_cargos", "process_cargo_bed_specs"}

\* C10: no extractor raises, whatever fields of a record are absent, null or
\* of the wrong type, and every row of a tabular file is stored.
C10_ExtractorsTotal ==
    /\ error \notin Extractors
    /\ Committed("process_vehicles")
          => \A id \in IdsOf(VehicleOccurrences) : RowsWith(db.vehicles, "id", id) # {}
    /\ Committed("process_vehicle_parts")
          => \A id \in IdsOf(PartOccurrences) : RowsWith(db.vehicle_parts, "id", id) # {}
    /\ Committed("process_cargos")
          => \A id \in IdsOf(CargoOccurrences) : RowsWith(db.cargos, "id", id) # {}

-----------------------------------------------------------------------------
(* Dispatch of the tabular files to the extractors.                        *)

TabularFiles == {i \in 1..Len(files) : files[i].Type = S_DataTable}

\* a row of `table` names document f as its source
SourceIn(table, f) == \E k \in 1..Len(table) : table[k].source_file = JStr(f.name)

\* a row of cargo_bed_specs that only document f can have given: f holds a
\* record with bed data for its part, and no other document does
BedSpecFrom(f) ==
    \E k \in 1..Len(db.cargo_bed_specs) :
        /\ \E i \in 1..Len(f.Rows) :
              f.Rows[i].RowName = db.cargo_bed_specs[k].part_id /\ HasBedData(f.Rows[i])
        /\ \A g \in TabularFiles :
              files[g] # f => \A i \in 1..Len(files[g].Rows) :
                  ~(files[g].Rows[i].RowName = db.cargo_bed_specs[k].part_id
                    /\ HasBedData(files[g].Rows[i]))

\* the entity categories that hold rows extracted from document f
CategoriesOf(f) ==
    (IF SourceIn(db.vehicles, f) THEN {"vehicle"} ELSE {})
    \cup (IF SourceIn(db.vehicle_parts, f) THEN {"part"} ELSE {})
    \cup (IF SourceIn(db.cargos, f) THEN {"cargo"} ELSE {})
    \cup (IF BedSpecFrom(f) THEN {"bed-spec"} ELSE {})

\* the categories whose filename prefix the name starts with
CategoriesByPrefix(name) ==
    (IF StartsWith(name, S_Vehicles) THEN {"vehicle"} ELSE {})
    \cup (IF \E i \in 1..Len(part_files) : StartsWith(name, part_files[i])
          THEN {"part"} ELSE {})
    \cup (IF StartsWith(name, S_Cargos) THEN {"cargo"} ELSE {})
    \cup (IF StartsWith(name, S_CargoBed) /\ ~StartsWith(name, S_CargoBedAttachments)
          THEN {"bed-spec"} ELSE {})

RECURSIVE Flatten(_)
Flatten(seqs) == IF seqs = <<>> THEN <<>> ELSE Head(seqs) \o Flatten(Tail(seqs))

\* the child rows of all records of occ, each record taken once, in order
ChildRowsOnce(occ, Of(_, _)) ==
    Flatten([i \in 1..Len(occ) |-> Of(occ[i].row.RowName, occ[i].row)])

\* C11 as stated: once the four extractors have run, every tabular file has
\* rows in at most one entity category (vehicle, part, cargo, bed-spec), and
\* a file whose name starts with no recognized prefix has rows in none.
C11_SingleCategory ==
    Committed("process_cargo_bed_specs") =>
        \A i \in TabularFiles :
            /\ Cardinality(CategoriesOf(files[i])) <= 1
            /\ CategoriesByPrefix(files[i].name) = {} => CategoriesOf(files[i]) = {}

\* C11 amended: each extractor selects its files by its own prefixes: a
\* tabular file has rows only in the categories whose prefix its name starts
\* with, which is one category at most except for a cargo bed file (CargoBed,
\* not CargoBedAttachments), extracted both as a part file and as a bed-spec
\* file; each extractor takes every record of its files exactly once (the
\* child tables hold the child rows of each record once, in processing
\* order); a file matching no prefix gives no rows and no error.
C11_IndependentDispatch ==
    /\ Committed("process_cargo_bed_specs") =>
          \A i \in TabularFiles :
              /\ CategoriesOf(files[i]) \subseteq CategoriesByPrefix(files[i].name)
              /\ \/ Cardinality(CategoriesOf(files[i])) <= 1
                 \/ /\ CategoriesOf(files[i]) = {"part", "bed-spec"}
                    /\ StartsWith(files[i].name, S_CargoBed)
                    /\ ~StartsWith(files[i].name, S_CargoBedAttachments)
    /\ Committed("process_vehicles") =>
          /\ db.vehicle_tags = ChildRowsOnce(VehicleOccurrences, TagsOfRecord)
          /\ db.vehicle_default_parts = ChildRowsOnce(VehicleOccurrences, DefaultPartsOfRecord)
    /\ Committed("process_vehicle_parts") =>
          db.part_compatible_types = ChildRowsOnce(PartOccurrences, CompatibleTypesOfRecord)
    /\ Committed("process_cargos") =>
          db.cargo_space_types = ChildRowsOnce(CargoOccurrences, SpaceTypesOfRecord)
    /\ (\A i \in 1..Len(files) : CategoriesByPrefix(files[i].name) = {})
          => /\ pc # "failed"
             /\ Committed("create_schema") =>
                   \A t \in DOMAIN db \ {"schema_version"} : db[t] = <<>>

C11_Witness ==
    /\ pc = "done"
    /\ \E i, k \in TabularFiles :
          /\ CategoriesOf(files[i]) = {"part", "bed-spec"}
          /\ CategoriesByPrefix(files[k].name) = {}
          /\ files[k].Rows # <<>>

-----------------------------------------------------------------------------
(* The phases of a run.                                                    *)

PhaseOf(step) ==
    IF step \in {"process_vehicles", "process_vehicle_parts", "process_cargos"} THEN 1
    ELSE IF step \in {"process_cargo_weights", "process_cargo_bed_specs",
                      "process_vehicle_weights"} THEN 2
    ELSE IF step = "create_views" THEN 3
    ELSE IF step = "summary" THEN 4
    ELSE 0

PrimaryTables ==
    {"vehicles", "vehicle_parts", "vehicle_default_parts", "vehicle_tags",
     "cargos", "cargo_space_types", "part_compatible_types"}

DerivedTables == {"cargo_weights", "cargo_weight_components", "cargo_bed_specs", "vehicle_weights"}

\* the ids of the rows of a primary table whose reference path gives the key
\* of a blueprint document of positive mass
WeighedIds(table, pathcol) ==
    {table[i].id : i \in {k \in 1..Len(table) :
        LET key == PathBlueprintName(table[k][pathcol])
        IN /\ key.j = "str"
           /\ \E f \in BlueprintsKeyed(key.s) : PositiveTotal(files[f].Exports) > 0}}

\* one step of a run, from the statement pc to the statement pc'
PhaseStep ==
    \* the statements run in the order of main, or an exception ends the run
    /\ pc' # pc =>
          \/ pc \in {"done", "failed"} /\ pc' = "create_schema"
          \/ pc \notin {"done", "failed"} /\ pc' = "failed" /\ error' = pc
          \/ pc \notin {"done", "failed"} /\ pc' = StepOrder[Pos(pc) + 1]
    \* a phase writes only its own tables, and only in its own steps
    /\ PhaseOf(pc) # 1 /\ pc \notin {"create_schema", "done", "failed"}
          => \A t \in PrimaryTables : db'[t] = db[t]
    /\ PhaseOf(pc) \in {3, 4} => db' = db
    /\ PhaseOf(pc) = 1 => \A t \in DerivedTables : db'[t] = <<>>
    /\ PhaseOf(pc) # 3 /\ pc # "create_schema" => views' = views
    /\ PhaseOf(pc) # 4 /\ pc \notin {"done", "failed"} => stats' = stats
    \* the resolvers see all and only the primary rows committed by phase 1
    /\ pc = "process_cargo_weights" /\ pc' # "failed"
          => {db'.cargo_weights[i].cargo_id : i \in 1..Len(db'.cargo_weights)}
                = WeighedIds(db.cargos, "actor_class_path")
    /\ pc = "process_vehicle_weights" /\ pc' # "failed"
          => {db'.vehicle_weights[i].vehicle_id : i \in 1..Len(db'.vehicle_weights)}
                = WeighedIds(db.vehicles, "blueprint_path")
    \* an exception leaves every committed row in the store
    /\ pc' = "failed" /\ pc # "failed" => db' = db

\* C12: a run goes through primary extraction, cross-reference resolution,
\* view definition and summary readback in this order; each step starts from
\* the committed writes of the steps before it, the resolvers of phase 2 derive
\* rows for all and only the committed primary rows whose key a blueprint of
\* positive mass matches, later phases leave the rows of earlier phases as
\* they are, and an exception in a step leaves all rows committed before it.
C12_PhasesInOrder == [][PhaseStep]_vars

C12_Witness ==
    /\ pc = "failed"
    /\ error = "process_cargo_weights"
    /\ db.cargos # <<>>

-----------------------------------------------------------------------------
(* Runs in a row on one snapshot.                                          *)

\* C13: when main() has run again on the same snapshot, the store holds the
\* same table contents as the run before left (the model keeps no creation
\* timestamp); child rows and component rows are not duplicated.
C13_RunIdempotent ==
    (runs >= 2 /\ pc \in {"done", "failed"}) => db = prior

C13_Witness ==
    /\ runs = 2
    /\ pc = "done"
    /\ db.cargo_weight_components # <<>>
    /\ db = prior

-----------------------------------------------------------------------------
(* The blueprint key of a reference path.                                  *)

\* the final "/"-separated segment of a path: the whole path if it has no "/"
FinalSegment(path) ==
    IF Contains(path, S_Slash) THEN AfterLastOccurrence(path, S_Slash) ELSE path

\* the segment without a trailing "_C"
WithoutTrailingSuffix(segment) ==
    IF EndsWith(segment, S_ClassSuffix)
    THEN SubSeq(segment, 1, Len(segment) - Len(S_ClassSuffix))
    ELSE segment

\* C14: the blueprint key of a non-empty reference path is its final
\* "/"-separated segment with only a trailing "_C" removed; a "_C" elsewhere
\* in the segment is kept, and a path without "/" has a key too.
C14_KeyIsFinalSegmentWithoutSuffix ==
    (pc = "blueprint_name" /\ path_res # <<>> /\ path_arg # <<>>)
        => path_res[1] = JStr(WithoutTrailingSuffix(FinalSegment(path_arg)))

-----------------------------------------------------------------------------
(* Blueprint documents that no entity refers to.                           *)

\* the key of blueprint document f is the key of no row of table
Unmatched(f, table, pathcol) ==
    /\ f.Type = S_Blueprint
    /\ \A i \in 1..Len(table) :
          PathBlueprintName(table[i][pathcol]) # JStr(FileBlueprintName(f.name))

\* the snapshot without the blueprint documents that match no row of table
WithoutUnmatched(table, pathcol) ==
    SelectSeq(files, LAMBDA f : ~Unmatched(f, table, pathcol))

\* a weight row carries the total positive mass and the first export name of
\* a blueprint document whose key is the key of its entity
FromOwnBlueprint(weight, masscol, path) ==
    /\ PathBlueprintName(path).j = "str"
    /\ \E f \in BlueprintsKeyed(PathBlueprintName(path).s) :
          /\ weight[masscol] = JNum(PositiveTotal(files[f].Exports))
          /\ weight.blueprint_path = FirstExportName(files[f].Exports)

\* a step of a resolver ends as it ends on the snapshot without the unmatched
\* blueprint documents
UnmatchedStep ==
    /\ pc = "process_cargo_weights" =>
          LET r == process_cargo_weights(Ok(db), WithoutUnmatched(db.cargos, "actor_class_path"))
          IN /\ (pc' = "failed") = r.raised
             /\ ~r.raised => db' = r.db
             /\ ~r.raised => \A i \in 1..Len(db'.cargo_weights) :
                   \E k \in 1..Len(db.cargos) :
                       /\ db.cargos[k].id = db'.cargo_weights[i].cargo_id
                       /\ FromOwnBlueprint(db'.cargo_weights[i], "total_weight_kg",
                                           db.cargos[k].actor_class_path)
    /\ pc = "process_vehicle_weights" =>
          LET r == process_vehicle_weights(Ok(db), WithoutUnmatched(db.vehicles, "blueprint_path"))
          IN /\ (pc' = "failed") = r.raised
             /\ ~r.raised => db' = r.db
             /\ ~r.raised => \A i \in 1..Len(db'.vehicle_weights) :
                   \E k \in 1..Len(db.vehicles) :
                       /\ db.vehicles[k].id = db'.vehicle_weights[i].vehicle_id
                       /\ FromOwnBlueprint(db'.vehicle_weights[i], "chassis_mass_kg",
                                           db.vehicles[k].blueprint_path)

\* C15: a blueprint document whose key is the key of no entity changes no
\* table and raises no error, whatever its exports hold: each resolver ends as
\* it would without these documents, and every weight row comes from a
\* document whose key is the key of its entity (a cargo with a path ending in
\* Box_C gets its row from a file keyed Box, never from one keyed OtherBox).
C15_UnmatchedBlueprintIgnored == [][UnmatchedStep]_vars

C15_Witness ==
    /\ pc = "done"
    /\ \E k \in 1..Len(db.cargos) :
          PathBlueprintName(db.cargos[k].actor_class_path) = JStr(<<"B", "o", "x">>)
    /\ \E i \in 1..Len(files) :
          /\ Unmatched(files[i], db.cargos, "actor_class_path")
          /\ PositiveTotal(files[i].Exports) > 0
          /\ UnreadableExport \in {files[i].Exports[x] : x \in 1..Len(files[i].Exports)}
    /\ db.cargo_weights = <<>>
    /\ db.cargo_weight_components = <<>>

-----------------------------------------------------------------------------
(* Consistency of the derived rows of a cargo.                             *)

ComponentMassSum(id) ==
    LET own == Matching(db.cargo_weight_components, "cargo_id", id)
    IN SumSeq([i \in 1..Len(own) |-> own[i].mass_kg.n])

\* C16: after phase 2, for every cargo that has a cargo_weights row, the sum
\* of mass_kg over its cargo_weight_components rows equals total_weight_kg,
\* also when several blueprint files reduce to the same blueprint key.
C16_ComponentsSumToTotal ==
    Committed("process_cargo_weights") =>
        \A i \in 1..Len(db.cargo_weights) :
            ComponentMassSum(db.cargo_weights[i].cargo_id)
                = db.cargo_weights[i].total_weight_kg.n

====
